---- MODULE Spec2Model ----
(***************************************************************************)
(* Task-tracking HTTP service of src/main.go: a Task is persisted as a     *)
(* Redis hash "task:<id>" (HSet) plus a member of the sorted set "tasks"   *)
(* (ZAdd, score = Timestamp).  The model holds the two Redis structures,   *)
(* the wall clock, the ids uuid.New has handed out, and one record per     *)
(* in-flight request (gin serves requests concurrently, every Redis        *)
(* command is atomic at the backend).  A Redis command may fail            *)
(* (hmset.Err() != nil ...) and the server process may crash.              *)
(*                                                                         *)
(* Strings are sequences of characters, a *Task is a sequence of length    *)
(* at most one (<<>> is nil).  blockTasks/createTask (lines 199-229) seed  *)
(* the store through the same persistTask before the router runs; the      *)
(* model starts from an empty store and creates tasks through POST only.   *)
(***************************************************************************)
EXTENDS Integers, Sequences, FiniteSets, TLC

\* ------------------------------------------------------------------ bounds
MaxIds == 2        \* how many ids uuid.New can hand out
MaxTicks == 1      \* how many seconds the clock advances past NowStart
NowStart == 9      \* the clock's first reading (seconds since the epoch)
NumProcs == 2      \* concurrent request goroutines

Procs == 1..NumProcs

\* ----------------------------------------------------------------- strings
Digits == <<"0", "1", "2", "3", "4", "5", "6", "7", "8", "9">>

\* Characters in byte order, as far as the model's strings use them.
Alphabet == Digits \o <<"A", "B", "C", "D", "t", "w">>

Ord(c) == CHOOSE i \in 1..Len(Alphabet) : Alphabet[i] = c

IsDigit(c) == \E i \in 1..Len(Digits) : Digits[i] = c

DigitVal(c) == (CHOOSE i \in 1..Len(Digits) : Digits[i] = c) - 1

RECURSIVE FormatNat(_)
FormatNat(n) ==
    IF n < 10 THEN <<Digits[n + 1]>>
    ELSE Append(FormatNat(n \div 10), Digits[(n % 10) + 1])

\* go-redis writes an int64 argument with strconv.AppendInt(b, v, 10).
FormatInt(n) == IF n < 0 THEN <<"-">> \o FormatNat(-n) ELSE FormatNat(n)

RECURSIVE DigitsValue(_)
DigitsValue(s) ==
    IF s = <<>> THEN 0
    ELSE 10 * DigitsValue(SubSeq(s, 1, Len(s) - 1)) + DigitVal(s[Len(s)])

AllDigits(s) == s # <<>> /\ \A i \in 1..Len(s) : IsDigit(s[i])

\* timestamp, _ := strconv.ParseInt(s, 10, 64): the error is dropped, and a
\* syntax error leaves 0.  (Values stay far below the 64-bit range.)
ParseInt(s) ==
    IF s # <<>> /\ s[1] \in {"-", "+"}
    THEN LET r == Tail(s)
         IN  IF AllDigits(r)
             THEN (IF s[1] = "-" THEN -DigitsValue(r) ELSE DigitsValue(r))
             ELSE 0
    ELSE IF AllDigits(s) THEN DigitsValue(s) ELSE 0

RECURSIVE LexLess(_, _)
\* Byte-wise string order, Redis' order of members with equal scores.
LexLess(a, b) ==
    IF a = <<>> THEN b # <<>>
    ELSE IF b = <<>> THEN FALSE
    ELSE IF a[1] = b[1] THEN LexLess(Tail(a), Tail(b))
    ELSE Ord(a[1]) < Ord(b[1])

\* ------------------------------------------------------------------- Task
FieldNames == {"Id", "Name", "Description", "Timestamp", "TaskerId", "WorkerId"}

\* uuid.New().String(): the ids the generator can hand out.
Ids == {FormatInt(i) : i \in 1..MaxIds}

\* The zero Task (var task Task).
ZeroTask ==
    [Id |-> <<>>, Name |-> <<>>, Description |-> <<>>, Timestamp |-> 0,
     TaskerId |-> <<>>, WorkerId |-> <<>>]

\* What c.BindJSON(&task) leaves in task for the request bodies tried: the
\* spec's scenario body, and one that also carries an id and a timestamp.
Bodies ==
    {[Id |-> <<>>, Name |-> <<"A">>, Description |-> <<"B">>, Timestamp |-> 0,
      TaskerId |-> <<"t", "1">>, WorkerId |-> <<"w", "1">>],
     [Id |-> <<"1">>, Name |-> <<"C">>, Description |-> <<"D">>, Timestamp |-> 3,
      TaskerId |-> <<"t", "2">>, WorkerId |-> <<"w", "2">>]}

Nil == <<>>

Ptr(t) == <<t>>

\* ------------------------------------------------------------------ Redis
\* fmt.Sprintf("task:%s", id)
TaskKey(id) == <<"t", "a", "s", "k", ":">> \o id

Keys == {TaskKey(id) : id \in Ids}

EmptyMap == [f \in {} |-> <<>>]

\* HSET key f1 v1 ...: sets the named fields, keeps the hash's other fields.
HSet(h, key, fv) ==
    [h EXCEPT ![key] =
        [f \in (DOMAIN h[key]) \cup (DOMAIN fv) |->
            IF f \in DOMAIN fv THEN fv[f] ELSE h[key][f]]]

\* HGETALL key: every field; a key that does not exist gives no fields.
HGetAll(h, key) == h[key]

\* Mutant: the key pattern matches every task.
Unlink_Mut(h, key) == [k \in DOMAIN h |-> EmptyMap]

\* UNLINK key: the key is gone; a key that does not exist is no error.
Unlink(h, key) == [h EXCEPT ![key] = EmptyMap]

\* ZADD set score member: adds the member or updates its score.
ZAdd(z, score, member) ==
    [m \in (DOMAIN z) \cup {member} |-> IF m = member THEN score ELSE z[m]]

\* Mutant: the member is left in the set.
ZRem_Mut(z, member) == z

\* ZREM set member: a member that is not in the set is no error.
ZRem(z, member) == [m \in (DOMAIN z) \ {member} |-> z[m]]

ZLess(z, a, b) == z[a] < z[b] \/ (z[a] = z[b] /\ LexLess(a, b))

RECURSIVE ZSorted(_, _)
ZSorted(z, S) ==
    IF S = {} THEN <<>>
    ELSE LET m == CHOOSE x \in S : \A y \in S \ {x} : ZLess(z, x, y)
         IN  <<m>> \o ZSorted(z, S \ {m})

\* ZRANGE set start stop: members ascending by score, ranks start..stop
\* inclusive, a negative rank counting from the end.
ZRange(z, start, stop) ==
    LET all == ZSorted(z, DOMAIN z)
        n == Len(all)
        s0 == IF start < 0 THEN start + n ELSE start
        e0 == IF stop < 0 THEN stop + n ELSE stop
        s == IF s0 < 0 THEN 0 ELSE s0
        e == IF e0 >= n THEN n - 1 ELSE e0
    IN  IF s > e \/ s >= n THEN <<>> ELSE SubSeq(all, s + 1, e + 1)

\* -------------------------------------------------------------- repository
\* Mutant: the tasker and the worker change places.
TaskFields_Mut(task) ==
    [f \in FieldNames |->
        CASE f = "Id" -> task.Id
          [] f = "Name" -> task.Name
          [] f = "Description" -> task.Description
          [] f = "Timestamp" -> FormatInt(task.Timestamp)
          [] f = "TaskerId" -> task.WorkerId
          [] f = "WorkerId" -> task.TaskerId]

\* The field/value pairs persistTask hands to HSet; every value is a string
\* at the backend, the int64 Timestamp in decimal.
TaskFields(task) ==
    [f \in FieldNames |->
        CASE f = "Id" -> task.Id
          [] f = "Name" -> task.Name
          [] f = "Description" -> task.Description
          [] f = "Timestamp" -> FormatInt(task.Timestamp)
          [] f = "TaskerId" -> task.TaskerId
          [] f = "WorkerId" -> task.WorkerId]

\* ires[f] on a Go map: a missing key reads as "".
MapGet(ires, f) == IF f \in DOMAIN ires THEN ires[f] ELSE <<>>

\* Mutant: the score is left at its zero value.
Score_Mut(task) == 0

\* redis.Z{Score: float64(task.Timestamp), Member: task.Id}; the conversion
\* is exact below 2^53.
Score(task) == task.Timestamp

\* The Task fetchTask builds from the fields, lines 127-135.
TaskOf(ires) ==
    [Id |-> MapGet(ires, "Id"),
     Name |-> MapGet(ires, "Name"),
     Description |-> MapGet(ires, "Description"),
     Timestamp |-> ParseInt(MapGet(ires, "Timestamp")),
     TaskerId |-> MapGet(ires, "TaskerId"),
     WorkerId |-> MapGet(ires, "WorkerId")]

\* Mutant: no test for an empty result.
fetchTask_Mut(ires, failed) ==
    IF failed THEN [task |-> Nil, err |-> TRUE]
    ELSE [task |-> Ptr(TaskOf(ires)), err |-> FALSE]

\* fetchTask, given what HGetAll returned and whether it failed:
\* (nil, err), (nil, nil) for no fields, or the Task read from the fields.
fetchTask(ires, failed) ==
    IF failed THEN [task |-> Nil, err |-> TRUE]
    ELSE IF Cardinality(DOMAIN ires) = 0 THEN [task |-> Nil, err |-> FALSE]
    ELSE [task |-> Ptr(TaskOf(ires)), err |-> FALSE]

\* ---------------------------------------------------------------- handlers
\* A response: the status and the JSON body's members, each absent (<<>>) or
\* present (<<v>>); status 0 is "no response received".
Resp(status, id, task, tasks, created, message) ==
    [status |-> status, id |-> id, task |-> task, tasks |-> tasks,
     created |-> created, message |-> message]

NoResp == Resp(0, <<>>, <<>>, <<>>, <<>>, "")

\* GET /task/:id
RespGetTask(id, r) ==
    IF r.err THEN Resp(500, <<id>>, <<>>, <<>>, <<>>, "error")
    ELSE IF r.task = Nil THEN Resp(404, <<id>>, <<>>, <<>>, <<>>, "not found")
    ELSE Resp(200, <<>>, r.task, <<>>, <<>>, "")

\* Mutant: the error is not looked at.
RespGetTasks_Mut(tasks, failed) == Resp(200, <<>>, <<>>, <<tasks>>, <<>>, "")

\* GET /task
RespGetTasks(tasks, failed) ==
    IF failed THEN Resp(500, <<>>, <<>>, <<>>, <<>>, "error")
    ELSE Resp(200, <<>>, <<>>, <<tasks>>, <<>>, "")

\* POST /task
RespPostTask(task, failed) ==
    IF failed THEN Resp(500, <<>>, <<task>>, <<>>, <<FALSE>>, "error")
    ELSE Resp(201, <<>>, <<task>>, <<>>, <<TRUE>>, "Task Created Successfully")

\* DELETE /task/:id
RespDeleteTask(id, failed) ==
    IF failed THEN Resp(500, <<id>>, <<>>, <<>>, <<>>, "error")
    ELSE Resp(200, <<id>>, <<>>, <<>>, <<>>, "Task deleted")

\* ------------------------------------------------------------------- state
VARIABLES
    hashes,    \* the Redis hashes: key -> field map (no fields: no such key)
    tasks,     \* the sorted set "tasks": member -> score
    now,       \* time.Now().Unix()
    used,      \* the ids uuid.New has returned
    pc,        \* per request goroutine: where it stands
    local,     \* per request goroutine: its locals
    out,       \* the response the step just taken has sent, if any
    faulted,   \* history: some Redis command failed or the process crashed
    raced,     \* history: ids whose create and delete were both between
               \* their two steps at the same time
    created,   \* history: the Tasks returned with 201
    unlinked   \* history: ids whose field map an Unlink removed

vars ==
    <<hashes, tasks, now, used, pc, local, out, faulted, raced, created,
      unlinked>>

\* A goroutine's locals: the request, the Task of a create, the id of a get
\* or delete, the ids, the loop's turns done and the tasks so far of a
\* listing.  pre is history:
\* what a get or delete found for its id, and "hit" once a create wrote the
\* id's field map while the delete was between its two steps.
Local(op, task, id, ids, i, acc, pre) ==
    [op |-> op, task |-> task, id |-> id, ids |-> ids, i |-> i, acc |-> acc,
     pre |-> pre]

NoLocal == Local("none", ZeroTask, <<>>, <<>>, 0, <<>>, "")

\* The response r of a request whose goroutine's locals were l; berr records
\* that a Redis command of the request failed (history).
Out(r, l, b) == [resp |-> r, local |-> l, berr |-> b]

NoOut == Out(NoResp, NoLocal, FALSE)

HasMap(id) == DOMAIN hashes[TaskKey(id)] # {}

InIndex(id) == id \in DOMAIN tasks

\* What a delete of id finds.
Shape(id) ==
    IF HasMap(id) THEN (IF InIndex(id) THEN "both" ELSE "orphan")
    ELSE (IF InIndex(id) THEN "dangling" ELSE "none")

\* A create of id has written the field map and not yet the index.
MidCreate(q, id) == pc[q] = "zadd" /\ local[q].task.Id = id

\* A delete of id has removed the field map and not yet the index member.
MidDelete(q, id) == pc[q] = "zrem" /\ local[q].id = id

Init ==
    /\ hashes = [k \in Keys |-> EmptyMap]
    /\ tasks = EmptyMap
    /\ now = NowStart
    /\ used = {}
    /\ pc = [p \in Procs |-> "idle"]
    /\ local = [p \in Procs |-> NoLocal]
    /\ out = NoOut
    /\ faulted = FALSE
    /\ raced = {}
    /\ created = {}
    /\ unlinked = {}

\* A Redis command either succeeds or fails with an error and no effect
\* (failed); the store a command leaves when its effect is made and its
\* reply is lost is the store Crash leaves after the step.

\* ----------------------------------------------------------------- actions
\* The clock advances.
Tick ==
    /\ now < NowStart + MaxTicks
    /\ now' = now + 1
    /\ out' = NoOut
    /\ UNCHANGED <<hashes, tasks, used, pc, local, faulted, raced, created,
                   unlinked>>

\* The request of goroutine p ends with response r.
Finish(p, r, l, b) ==
    /\ pc' = [pc EXCEPT ![p] = "idle"]
    /\ local' = [local EXCEPT ![p] = NoLocal]
    /\ out' = Out(r, l, b)
    /\ faulted' = (faulted \/ b)

\* The request of goroutine p goes on at label with locals l.
Goto(p, label, l) ==
    /\ pc' = [pc EXCEPT ![p] = label]
    /\ local' = [local EXCEPT ![p] = l]
    /\ out' = NoOut
    /\ faulted' = faulted

\* POST /task whose body does not parse: 500 and the zero Task.
PostMalformed(p) ==
    /\ pc[p] = "idle"
    /\ pc' = pc
    /\ local' = local
    /\ out' = Out(RespPostTask(ZeroTask, TRUE),
                Local("create", ZeroTask, <<>>, <<>>, 0, <<>>, ""), FALSE)
    /\ UNCHANGED <<hashes, tasks, now, used, faulted, raced, created, unlinked>>

\* POST /task, lines 60-66: the body is bound, the id and the timestamp are
\* assigned; persistTask follows.
PostTask(p, body) ==
    /\ pc[p] = "idle"
    /\ \E id \in Ids \ used :
        /\ used' = used \cup {id}
        /\ Goto(p, "hset",
                Local("create", [body EXCEPT !.Id = id, !.Timestamp = now],
                      <<>>, <<>>, 0, <<>>, ""))
    /\ UNCHANGED <<hashes, tasks, now, raced, created, unlinked>>

\* Mutant: hmset.Err() is not looked at.
persistTask_HSet_Mut(p) ==
    /\ pc[p] = "hset"
    /\ \E failed \in BOOLEAN :
        /\ hashes' = IF ~failed
                     THEN HSet(hashes, TaskKey(local[p].task.Id),
                               TaskFields(local[p].task))
                     ELSE hashes
        /\ Goto(p, "zadd", local[p])
    /\ UNCHANGED <<tasks, now, used, raced, created, unlinked>>

\* persistTask, lines 87-98: HSet; an error returns.
persistTask_HSet(p) ==
    /\ pc[p] = "hset"
    /\ \E failed \in BOOLEAN :
        LET task == local[p].task
        IN  /\ hashes' = IF ~failed
                         THEN HSet(hashes, TaskKey(task.Id), TaskFields(task))
                         ELSE hashes
            /\ IF failed
               THEN /\ Finish(p, RespPostTask(task, TRUE), local[p], TRUE)
                    /\ raced' = raced
               ELSE /\ pc' = [pc EXCEPT ![p] = "zadd"]
                    /\ local' = [q \in Procs |->
                          IF MidDelete(q, task.Id)
                          THEN [local[q] EXCEPT !.pre = "hit"] ELSE local[q]]
                    /\ out' = NoOut
                    /\ faulted' = faulted
                    /\ raced' = IF \E q \in Procs : MidDelete(q, task.Id)
                                THEN raced \cup {task.Id} ELSE raced
    /\ UNCHANGED <<tasks, now, used, created, unlinked>>

\* persistTask, lines 100-107: ZAdd; the handler answers 201 or 500.
persistTask_ZAdd(p) ==
    /\ pc[p] = "zadd"
    /\ \E failed \in BOOLEAN :
        LET task == local[p].task
        IN  /\ tasks' = IF ~failed
                        THEN ZAdd(tasks, Score(task), task.Id)
                        ELSE tasks
            /\ Finish(p, RespPostTask(task, failed), local[p], failed)
            /\ created' = IF failed THEN created ELSE created \cup {task}
    /\ UNCHANGED <<hashes, now, used, raced, unlinked>>

\* GET /task/:id: fetchTask's one command and the answer.
GetTask(p, id) ==
    /\ pc[p] = "idle"
    /\ \E failed \in BOOLEAN :
        Finish(p, RespGetTask(id, fetchTask(HGetAll(hashes, TaskKey(id)), failed)),
               Local("get", ZeroTask, id, <<>>, 0, <<>>, Shape(id)), failed)
    /\ UNCHANGED <<hashes, tasks, now, used, raced, created, unlinked>>

\* Mutant: removing nothing is an error.
UnlinkErr_Mut(failed, n) == failed \/ n = 0

\* client.Unlink(...).Err(): the reply, the number of keys removed, is not
\* looked at.
UnlinkErr(failed, n) == failed

\* client.ZRem(...).Err(): the number of members removed is not looked at.
ZRemErr(failed, n) == failed

\* Mutant: Unlink and ZRem in one transaction.
deleteTask_Unlink_Mut(p, id) ==
    /\ pc[p] = "idle"
    /\ \E failed \in BOOLEAN :
        /\ hashes' = IF ~failed THEN Unlink(hashes, TaskKey(id)) ELSE hashes
        /\ tasks' = IF ~failed THEN ZRem(tasks, id) ELSE tasks
        /\ unlinked' = IF ~failed /\ HasMap(id)
                       THEN unlinked \cup {id} ELSE unlinked
        /\ Finish(p, RespDeleteTask(id, failed),
                  Local("delete", ZeroTask, id, <<>>, 0, <<>>, Shape(id)), failed)
    /\ UNCHANGED <<now, used, raced, created>>

\* DELETE /task/:id, deleteTask lines 140-142: Unlink; an error returns.
deleteTask_Unlink(p, id) ==
    /\ pc[p] = "idle"
    /\ \E failed \in BOOLEAN :
        LET l == Local("delete", ZeroTask, id, <<>>, 0, <<>>, Shape(id))
            err == UnlinkErr(failed, IF HasMap(id) THEN 1 ELSE 0)
        IN  /\ hashes' = IF ~failed THEN Unlink(hashes, TaskKey(id)) ELSE hashes
            /\ unlinked' = IF ~failed /\ HasMap(id)
                           THEN unlinked \cup {id} ELSE unlinked
            /\ IF err
               THEN /\ Finish(p, RespDeleteTask(id, TRUE), l, failed)
                    /\ raced' = raced
               ELSE /\ Goto(p, "zrem", l)
                    /\ raced' = IF \E q \in Procs : MidCreate(q, id)
                                THEN raced \cup {id} ELSE raced
    /\ UNCHANGED <<tasks, now, used, created>>

\* deleteTask lines 144-148: ZRem; the handler answers 200 or 500.
deleteTask_ZRem(p) ==
    /\ pc[p] = "zrem"
    /\ \E failed \in BOOLEAN :
        LET id == local[p].id
            err == ZRemErr(failed, IF InIndex(id) THEN 1 ELSE 0)
        IN  /\ tasks' = IF ~failed THEN ZRem(tasks, id) ELSE tasks
            /\ Finish(p, RespDeleteTask(id, err), local[p], failed)
    /\ UNCHANGED <<hashes, now, used, raced, created, unlinked>>

\* GET /task, fetchTasks lines 152-164: ZRange over the whole set.  With no
\* member the loop does not run and the handler answers at once.
fetchTasks_ZRange(p) ==
    /\ pc[p] = "idle"
    /\ \E failed \in BOOLEAN :
        LET ids == IF failed THEN <<>> ELSE ZRange(tasks, 0, -1)
            l == Local("list", ZeroTask, <<>>, ids, 0, <<>>, "")
        IN  IF failed \/ ids = <<>>
            THEN Finish(p, RespGetTasks(<<>>, failed), l, failed)
            ELSE Goto(p, "fetch", l)
    /\ UNCHANGED <<hashes, tasks, now, used, raced, created, unlinked>>

\* Mutant: a nil task is left out.
Appended_Mut(acc, task) == IF task = Nil THEN acc ELSE Append(acc, task)

\* tasks = append(tasks, task), line 170: a nil task is appended too.
Appended(acc, task) == Append(acc, task)

\* fetchTasks lines 166-174: one turn of the loop, fetchTask of the next
\* id; an error returns (nil, err), else the task is appended, and after the
\* last id the handler answers.
fetchTasks_Fetch(p) ==
    /\ pc[p] = "fetch"
    /\ \E failed \in BOOLEAN :
        LET l == local[p]
            r == fetchTask(HGetAll(hashes, TaskKey(l.ids[l.i + 1])), failed)
            m == [l EXCEPT !.i = l.i + 1, !.acc = Appended(l.acc, r.task)]
        IN  IF r.err
            THEN Finish(p, RespGetTasks(<<>>, TRUE), l, failed)
            ELSE IF m.i = Len(l.ids)
            THEN Finish(p, RespGetTasks(m.acc, FALSE), m, failed)
            ELSE Goto(p, "fetch", m)
    /\ UNCHANGED <<hashes, tasks, now, used, raced, created, unlinked>>

\* The server process dies with requests in flight: their goroutines are
\* gone and their clients get no response; the backend keeps its data.
Crash ==
    /\ \E p \in Procs : pc[p] # "idle"
    /\ pc' = [p \in Procs |-> "idle"]
    /\ local' = [p \in Procs |-> NoLocal]
    /\ out' = NoOut
    /\ faulted' = TRUE
    /\ UNCHANGED <<hashes, tasks, now, used, raced, created, unlinked>>

Next ==
    \/ Tick
    \/ Crash
    \/ \E p \in Procs : PostMalformed(p)
    \/ \E p \in Procs, body \in Bodies : PostTask(p, body)
    \/ \E p \in Procs : persistTask_HSet(p)
    \/ \E p \in Procs : persistTask_ZAdd(p)
    \/ \E p \in Procs, id \in Ids : GetTask(p, id)
    \/ \E p \in Procs, id \in Ids : deleteTask_Unlink(p, id)
    \/ \E p \in Procs : deleteTask_ZRem(p)
    \/ \E p \in Procs : fetchTasks_ZRange(p)
    \/ \E p \in Procs : fetchTasks_Fetch(p)

Spec == Init /\ [][Next]_vars

\* -------------------------------------------------------------- properties
\* No create or delete of id is between its two steps.
Quiet(id) == \A q \in Procs : ~MidCreate(q, id) /\ ~MidDelete(q, id)

Agree(id) == HasMap(id) <=> InIndex(id)

Dangling(id) == InIndex(id) /\ ~HasMap(id)

Orphaned(id) == HasMap(id) /\ ~InIndex(id)

\* The two disagreements of a create or a delete under way.
Transient(id) ==
    \/ Orphaned(id) /\ \E q \in Procs : MidCreate(q, id)
    \/ Dangling(id) /\ \E q \in Procs : MidDelete(q, id)

Consistent(S) ==
    \A id \in S : (Quiet(id) => Agree(id)) /\ (~Agree(id) => Transient(id))

\* Some goroutine takes a step of a delete of id: its Unlink (going on, or
\* answering 500) or its ZRem.
DeleteStepOn(id) ==
    \E p \in Procs :
        \/ pc[p] = "idle" /\ pc'[p] = "zrem" /\ local'[p].id = id
        \/ /\ pc[p] = "idle" /\ pc' = pc
           /\ out'.local.op = "delete" /\ out'.local.id = id
        \/ pc[p] = "zrem" /\ local[p].id = id /\ pc'[p] = "idle"

\* Some goroutine takes a step of a listing: its ZRange or a turn of its loop.
ListStep ==
    \/ out'.local.op = "list"
    \/ \E p \in Procs :
        \/ pc[p] = "idle" /\ pc'[p] = "fetch"
        \/ pc[p] = "fetch" /\ (pc'[p] # "fetch" \/ local'[p] # local[p])

\* C1 as stated: without crashes and backend failures (ids are used by one
\* create each: uuid.New), every id agrees between the field maps and the
\* index whenever no create or delete of it is between its two steps, and a
\* disagreement is one of the two transient ones.
C1_Orig == ~faulted => Consistent(Ids)

\* C1 amended: the same for every id whose create and delete were never
\* between their two steps at the same time.
C1_Agreement == ~faulted => Consistent(Ids \ raced)

C1_Witness ==
    /\ ~faulted
    /\ \E id \in Ids \ raced : Dangling(id) /\ \E q \in Procs : MidDelete(q, id)
    /\ \E id \in Ids \ raced : Orphaned(id) /\ \E q \in Procs : MidCreate(q, id)

FromBody(t) ==
    \E b \in Bodies :
        /\ t.Name = b.Name /\ t.Description = b.Description
        /\ t.TaskerId = b.TaskerId /\ t.WorkerId = b.WorkerId

\* C2 round trip: a Task t returned by a successful create carries the
\* request's name, description, tasker and worker and a server-assigned id
\* and timestamp, and a getById(t.id) that meets no backend error, with no
\* delete having removed t's field map, answers 200 with a Task equal to t
\* in all six fields.
C2_RoundTrip ==
    \A t \in created :
        /\ FromBody(t) /\ t.Id \in used /\ t.Timestamp \in NowStart..now
        /\ (/\ out.local.op = "get" /\ out.local.id = t.Id
            /\ ~out.berr /\ t.Id \notin unlinked)
           => (out.resp.status = 200 /\ out.resp.task = Ptr(t))

C2_Witness ==
    /\ out.local.op = "get" /\ out.resp.status = 200
    /\ \E t \in created :
        /\ out.resp.task = Ptr(t)
        /\ t.Timestamp = NowStart + 1 /\ t.Name = <<"C">>

\* C3 ordering: whatever creates and deletes went before, and in whatever
\* order their store calls ran, the tasks of a listing ascend by timestamp.
C3_Ordering ==
    (out.local.op = "list" /\ out.resp.status = 200) =>
        LET ts == out.resp.tasks[1]
        IN  \A i, j \in 1..Len(ts) :
                (i < j /\ ts[i] # Nil /\ ts[j] # Nil)
                    => ts[i][1].Timestamp <= ts[j][1].Timestamp

C3_Witness ==
    /\ out.local.op = "list" /\ out.resp.status = 200
    /\ LET ts == out.resp.tasks[1]
       IN  /\ Len(ts) = 2 /\ ts[1] # Nil /\ ts[2] # Nil
           /\ ts[1][1].Timestamp < ts[2][1].Timestamp
           /\ LexLess(ts[2][1].Id, ts[1][1].Id)

\* C4 idempotent delete: a delete that meets no backend error answers 200,
\* whether or not the id was ever created or is still there, and a delete of
\* an id with neither field map nor index member (the store a first delete
\* leaves) leaves the store as it is.
C4_IdempotentDelete ==
    /\ []((out.local.op = "delete" /\ ~out.berr) => out.resp.status = 200)
    /\ [][\A id \in Ids :
            (DeleteStepOn(id) /\ ~HasMap(id) /\ ~InIndex(id))
                => (hashes' = hashes /\ tasks' = tasks)]_vars

\* A second delete of a created and deleted id has answered 200.
C4_Witness ==
    /\ out.local.op = "delete" /\ out.resp.status = 200 /\ ~out.berr
    /\ out.local.pre = "none"
    /\ out.local.id \in unlinked \ raced
    /\ \E t \in created : t.Id = out.local.id
    /\ ~faulted

\* C5 absent vs error: a getById that meets no backend error answers 404
\* without a Task exactly when the id has no field map, and 200 with a Task
\* otherwise, never 500; ids never handed out and ids whose field map a
\* delete removed have none, created ids whose field map no delete removed
\* have one.
C5_AbsentNotError ==
    (out.local.op = "get" /\ ~out.berr) =>
        LET id == out.local.id
        IN  /\ out.resp.status \in {200, 404}
            /\ out.resp.status = 404 <=> ~HasMap(id)
            /\ out.resp.status = 404 <=> out.resp.task = Nil
            /\ (id \notin used \/ id \in unlinked) => out.resp.status = 404
            /\ ((\E t \in created : t.Id = id) /\ id \notin unlinked)
                   => out.resp.status = 200

\* A created and deleted id has answered 404.
C5_Witness ==
    /\ out.local.op = "get" /\ out.resp.status = 404 /\ ~out.berr
    /\ out.local.id \in unlinked
    /\ \E t \in created : t.Id = out.local.id
    /\ \E id \in Ids : id \notin used

\* C6 dangling index tolerance: the range holds every index member once; a
\* turn of the loop that meets no backend error adds one entry, nil exactly
\* when the id has no field map; and a listing that met no backend error
\* answers 200 with one entry per id of the range, in the range's order,
\* each nil or the Task of that id.
C6_DanglingTolerated ==
    /\ []((out.local.op = "list" /\ ~out.berr) =>
            /\ out.resp.status = 200
            /\ out.resp.tasks # <<>>
            /\ LET ts == out.resp.tasks[1]
                   ids == out.local.ids
               IN  /\ Len(ts) = Len(ids)
                   /\ \A i \in 1..Len(ts) : ts[i] = Nil \/ ts[i][1].Id = ids[i])
    /\ [][\A p \in Procs :
            /\ (pc[p] = "idle" /\ pc'[p] = "fetch") =>
                  LET ids == local'[p].ids
                  IN  /\ {ids[i] : i \in 1..Len(ids)} = DOMAIN tasks
                      /\ Len(ids) = Cardinality(DOMAIN tasks)
            /\ (/\ pc[p] = "fetch"
                /\ \/ pc'[p] = "fetch" /\ local'[p] # local[p]
                   \/ pc'[p] = "idle" /\ out'.local.op = "list" /\ ~out'.berr) =>
                  LET id == local[p].ids[local[p].i + 1]
                      acc == IF pc'[p] = "fetch" THEN local'[p].acc
                             ELSE out'.local.acc
                  IN  /\ Len(acc) = local[p].i + 1
                      /\ SubSeq(acc, 1, local[p].i) = local[p].acc
                      /\ acc[Len(acc)] = Nil <=> ~HasMap(id)]_vars

\* A listing with a nil entry for a dangling id and a Task for another id.
C6_Witness ==
    /\ out.local.op = "list" /\ out.resp.status = 200
    /\ \E i, j \in 1..Len(out.local.ids) :
        /\ out.resp.tasks[1][i] = Nil /\ Dangling(out.local.ids[i])
        /\ out.resp.tasks[1][j] # Nil

CreateAnswer ==
    /\ (out.local.op = "create" /\ out.resp.status = 201) =>
          /\ ~out.berr
          /\ out.resp.created = <<TRUE>>
          /\ out.resp.task = <<out.local.task>>
    /\ (out.local.op = "create" /\ out.resp.status # 201) =>
          /\ out.resp.status = 500
          /\ out.resp.created = <<FALSE>>
          /\ ~InIndex(out.local.task.Id)
    /\ (out.local.op = "create" /\ out.berr) => out.resp.status = 500

\* C7 as stated, its last clause: a create that reports success (and it does
\* only when no step failed) leaves both the field map and the index entry
\* of the new id.
C7_Orig ==
    /\ CreateAnswer
    /\ (out.local.op = "create" /\ out.resp.status = 201) =>
          (HasMap(out.local.task.Id) /\ InIndex(out.local.task.Id))

\* C7 amended: HSet, then ZAdd; a failed HSet answers 500 with no ZAdd and
\* the index as it was; after an HSet that succeeded the ZAdd is next; 201
\* is answered by the ZAdd step alone and only when no step failed, and then
\* the index holds the new id with its timestamp as score, and the field
\* map is there unless a delete's Unlink has removed it meanwhile.
C7_TwoSteps ==
    /\ [](/\ CreateAnswer
          /\ (out.local.op = "create" /\ out.resp.status = 201) =>
                LET t == out.local.task
                IN  /\ InIndex(t.Id) /\ tasks[t.Id] = t.Timestamp
                    /\ HasMap(t.Id) <=> t.Id \notin unlinked)
    /\ [][/\ \A p \in Procs :
              (pc[p] = "hset" /\ pc'[p] # "hset") =>
                  /\ tasks' = tasks
                  /\ \/ /\ pc'[p] = "zadd" /\ out' = NoOut
                        /\ DOMAIN hashes'[TaskKey(local[p].task.Id)] = FieldNames
                     \/ /\ pc'[p] = "idle" /\ hashes' = hashes
                        /\ \/ out' = NoOut
                           \/ out'.berr /\ out'.resp.status = 500
          /\ out'.resp.status = 201 =>
                \E p \in Procs :
                    /\ pc[p] = "zadd" /\ pc'[p] = "idle"
                    /\ out'.local.task = local[p].task]_vars

\* A create has reported success after a delete removed its field map.
C7_Witness ==
    /\ out.local.op = "create" /\ out.resp.status = 201
    /\ InIndex(out.local.task.Id)
    /\ out.local.task.Id \in unlinked

\* C8 not transactional: no step writes both the field maps and the index.
\* The witness is a store at rest left with a dangling index entry by a
\* race and an orphaned field map by a crash or a backend failure.
C8_NotTransactional == [][hashes' = hashes \/ tasks' = tasks]_vars

C8_Witness ==
    /\ \A p \in Procs : pc[p] = "idle"
    /\ \E i \in raced : Dangling(i)
    /\ \E j \in Ids \ raced : Orphaned(j)

\* C9 no partial result: a listing that met a backend error, in the range
\* read or in any turn of the loop, answers 500 without a listing, and no
\* step of a listing changes the store.
C9_NoPartial ==
    /\ []((out.local.op = "list" /\ out.berr) =>
            (out.resp.status = 500 /\ out.resp.tasks = <<>>))
    /\ [][ListStep => (hashes' = hashes /\ tasks' = tasks)]_vars

\* A listing has failed after resolving an id.
C9_Witness ==
    /\ out.local.op = "list" /\ out.berr /\ out.resp.status = 500
    /\ out.local.i >= 1 /\ out.local.acc # <<>>

\* C10 delete repairs and frames: a delete of id that met no backend error,
\* and during which no create wrote id's field map, leaves neither field map
\* nor index member of id, whatever it found; and no step of a delete
\* changes another id's field map, membership or score.
C10_DeleteRepairs ==
    /\ []((out.local.op = "delete" /\ ~out.berr /\ out.local.pre # "hit") =>
            (~HasMap(out.local.id) /\ ~InIndex(out.local.id)))
    /\ [][\A id \in Ids :
            DeleteStepOn(id) =>
                \A j \in Ids \ {id} :
                    /\ hashes'[TaskKey(j)] = hashes[TaskKey(j)]
                    /\ (j \in DOMAIN tasks') <=> (j \in DOMAIN tasks)
                    /\ (j \in DOMAIN tasks) => tasks'[j] = tasks[j]]_vars

\* A delete has repaired a dangling index entry next to another id's task.
C10_Witness ==
    /\ out.local.op = "delete" /\ ~out.berr /\ out.resp.status = 200
    /\ out.local.pre = "dangling"
    /\ \E j \in Ids \ {out.local.id} : HasMap(j) /\ InIndex(j)

====
